---- MODULE Spec2Model ----
(***************************************************************************)
(* The Policy-Gated Execution Orchestrator of The Grounded one:            *)
(*   - the Session Memory Store (memory_manager.py, class MemoryManager),  *)
(*   - the Execution Pipeline, Policy Gate and Orchestrator (root.py,      *)
(*     class RootAgent; filter.py, class FilterAgent).                     *)
(* The store is checked under SpecStore and SpecHist, the orchestrator     *)
(* under SpecReq.                                                          *)
(***************************************************************************)
EXTENDS Integers, Sequences, FiniteSets, TLC

(***************************************************************************)
(* Bounds of the model.                                                    *)
(***************************************************************************)
\* Clock resolution: instants per second (datetime has 10^6).
FracPerSec == 2
\* SpecStore: number of remember calls in one run.
MaxRemember == 2
\* SpecHist: number of remember calls in one run.
MaxHistRemember == 7

(***************************************************************************)
(* Program constants (config_template.py).                                 *)
(***************************************************************************)
MEMORY_DURATION_HOURS == 12
MAX_CONVERSATION_HISTORY == 5

\* Python None, SQL NULL.
NULL == "NULL"

\* Python truthiness of an Optional[str]: None and "" are falsy.
Truthy(v) == v # NULL /\ v # ""

(***************************************************************************)
(* Time.  An instant is a count of 1/FracPerSec seconds since the start of *)
(* the run; datetime.utcnow() reads now.                                   *)
(***************************************************************************)
SecondsPerHour == 3600

\* timedelta(hours=config.MEMORY_DURATION_HOURS), in instants.
TTL == MEMORY_DURATION_HOURS * SecondsPerHour * FracPerSec

\* Characters are their code points: "." is 46, "0".."9" are 48..57.
DOT == 46
ZERO == 48

\* isoformat writes the date and time in fixed-width, zero-padded fields
\* (here one seconds field of SecWidth digits) and the sub-second field, of
\* fixed width too, only when it is not zero.
SecWidth == 6
FracWidth == 1

RECURSIVE Digits(_, _)
Digits(n, w) ==
    IF w = 0 THEN <<>> ELSE Append(Digits(n \div 10, w - 1), ZERO + (n % 10))

isoformat(t) ==
    LET sec == t \div FracPerSec
        frac == t % FracPerSec
    IN  Digits(sec, SecWidth) \o
        (IF frac = 0 THEN <<>> ELSE <<DOT>> \o Digits(frac, FracWidth))

\* SQLite compares TEXT with the BINARY collation: byte by byte, and a proper
\* prefix sorts first.
RECURSIVE TextLess(_, _)
TextLess(a, b) ==
    IF b = <<>> THEN FALSE
    ELSE IF a = <<>> THEN TRUE
    ELSE IF Head(a) # Head(b) THEN Head(a) < Head(b)
    ELSE TextLess(Tail(a), Tail(b))

(***************************************************************************)
(* The session_memory table: a function from the session ids that have a   *)
(* row to the row.  conversation_history is the list that json.dumps       *)
(* writes and json.loads reads back (lists of dicts of str and None        *)
(* survive that round trip unchanged).                                     *)
(***************************************************************************)
SessionIds == {"S1", "S2"}

Put(st, s, row) ==
    [x \in DOMAIN st \cup {s} |-> IF x = s THEN row ELSE st[x]]

Drop(st, gone) ==
    [x \in DOMAIN st \ gone |-> st[x]]

HistoryEntry(t, p, c, a) ==
    [timestamp |-> isoformat(t), action |-> a, patient_id |-> p,
     clinician_id |-> c]

\* conversation_history[-n:] when it is longer than n.
FirstN(h, n) ==
    IF Len(h) > n THEN SubSeq(h, 1, n) ELSE h

LastN(h, n) ==
    IF Len(h) > n THEN SubSeq(h, Len(h) - n + 1, Len(h)) ELSE h

\* SQL COALESCE(?, column).
COALESCE_clear(x, y) == x

COALESCE(x, y) == IF x # NULL THEN x ELSE y

\* expires_at of a write at instant t.
expires_at_fixed(st, s, t) ==
    IF s \in DOMAIN st THEN st[s].expires_at ELSE isoformat(t + TTL)

expires_at_of(st, s, t) == isoformat(t + TTL)

\* MemoryManager.remember: the table after remember(s, p, c, a) at instant t.
remember(st, t, s, p, c, a) ==
    LET expires_at == expires_at_of(st, s, t)
    IN  IF s \in DOMAIN st
        THEN LET h0 == st[s].conversation_history
                 h1 == IF Truthy(a)
                       THEN LastN(Append(h0, HistoryEntry(t, p, c, a)),
                                  MAX_CONVERSATION_HISTORY)
                       ELSE h0
             IN  [st EXCEPT ![s] =
                    [clinician_id |-> COALESCE(c, st[s].clinician_id),
                     last_patient_id |-> COALESCE(p, st[s].last_patient_id),
                     last_action |-> COALESCE(a, st[s].last_action),
                     conversation_history |-> h1,
                     created_at |-> st[s].created_at,
                     expires_at |-> expires_at]]
        ELSE Put(st, s,
                 [clinician_id |-> c,
                  last_patient_id |-> p,
                  last_action |-> a,
                  conversation_history |->
                      IF Truthy(a) THEN <<HistoryEntry(t, p, c, a)>> ELSE <<>>,
                  created_at |-> Digits(t \div FracPerSec, SecWidth),
                  expires_at |-> expires_at])

\* recall's WHERE clause: session_id = ? AND expires_at > now_iso.
recall_where(st, t, s) ==
    s \in DOMAIN st /\ TextLess(isoformat(t), st[s].expires_at)

\* MemoryManager.recall: the row returned (<<>> is None) ...
recall(st, t, s) ==
    IF recall_where(st, t, s) THEN <<st[s]>> ELSE <<>>

\* ... and the table it leaves: a SELECT writes nothing.
recall_table_lazy_delete(st, t, s) ==
    IF s \in DOMAIN st /\ ~recall_where(st, t, s) THEN Drop(st, {s}) ELSE st

recall_table(st, t, s) == st

\* MemoryManager.forget: DELETE ... WHERE session_id = ?.
forget(st, s) == Drop(st, {s})

\* cleanup_expired_sessions' WHERE clause: expires_at < now_iso.
cleanup_where(st, t, s) == TextLess(st[s].expires_at, isoformat(t))

\* The rows cleanup_expired_sessions deletes; cursor.rowcount is their number.
cleanup_rows(st, t) == {s \in DOMAIN st : cleanup_where(st, t, s)}

\* MemoryManager.get_statistics.
get_statistics(st, t) ==
    LET total == Cardinality(DOMAIN st)
        active == Cardinality({s \in DOMAIN st : recall_where(st, t, s)})
    IN  [total_sessions |-> total, active_sessions |-> active,
         expired_sessions |-> total - active]

(***************************************************************************)
(* State.                                                                  *)
(*   store      the session_memory table                                   *)
(*   now        the clock datetime.utcnow() reads                          *)
(*   written    history variable: per stored row, the instant of the last  *)
(*              remember and every history entry appended since the row    *)
(*              was inserted                                               *)
(*   last       the last store call: its name, arguments and return value  *)
(*   nRemember  remember calls made so far                                 *)
(***************************************************************************)
VARIABLES store, now, written, last, nRemember

(***************************************************************************)
(* State of the orchestrator (declared here, used from "Orchestrator" on). *)
(*   current_session_token   RootAgent.current_session_token               *)
(*   retry_count, violation_count   the FilterAgent's counters             *)
(*   nTokens    tokens generated so far (each one is fresh)                *)
(*   loc        per thread: where its process_request call stands, the     *)
(*              call's local variables and, once it returned, its result   *)
(***************************************************************************)
VARIABLES current_session_token, retry_count, violation_count, nTokens, loc

(***************************************************************************)
(* State of the store under concurrent callers (used from "Concurrent      *)
(* callers of the store" on).                                              *)
(*   db_lock    MemoryManager._db_lock: the thread that holds it, 0 when   *)
(*              it is free                                                 *)
(*   mcall      per thread: where its call of a store method stands, the   *)
(*              call's arguments, local variables and return value         *)
(*   serial     history variable: the table the calls committed so far     *)
(*              make when each is applied at once, in commit order         *)
(*   nCalls     store calls made so far                                    *)
(***************************************************************************)
VARIABLES db_lock, mcall, serial, nCalls

(***************************************************************************)
(* State of the storage layer under the store.                             *)
(*   storage    "ok"; "failing" while statements on the connection raise   *)
(*              (I/O failure, corruption); "closed" after close()          *)
(***************************************************************************)
VARIABLES storage

(***************************************************************************)
(* State of one call of generate_session_token (tools/token_generator.py). *)
(*   tok   pc: "idle", then "random" once random_part is drawn, "stamped"  *)
(*         once the timestamp is formatted, "returned" once the token is   *)
(*         put together; the three strings as sequences of code points     *)
(***************************************************************************)
VARIABLES tok

(***************************************************************************)
(* The audit trail (utils.py, admin_cli.py).                               *)
(*   AUDIT_LOG  the file config.AUDIT_LOG: kind "missing", "list" (a JSON  *)
(*              array, its records in items) or "truncated" (opened for    *)
(*              writing and not, or not wholly, written: not JSON)         *)
(*   alog       per thread, its call of log_to_audit_trail: pc, the entry, *)
(*              the list it loaded and appended to, what it returned       *)
(*   logged     the entries of the calls that returned True since the last *)
(*              clear_logs, in the order of their return                   *)
(*   nLog       number of calls of log_to_audit_trail so far               *)
(***************************************************************************)
VARIABLES AUDIT_LOG, alog, logged, nLog

auditVars == <<AUDIT_LOG, alog, logged, nLog>>
auxVars == <<storage, tok, auditVars>>
memVars == <<written, last, nRemember, db_lock, mcall, serial, nCalls, auxVars>>
reqVars == <<current_session_token, retry_count, violation_count, nTokens, loc>>
concVars == <<db_lock, mcall, serial, nCalls>>
vars == <<store, now, written, last, nRemember,
          current_session_token, retry_count, violation_count, nTokens, loc,
          db_lock, mcall, serial, nCalls, storage, tok,
          AUDIT_LOG, alog, logged, nLog>>

(***************************************************************************)
(* Orchestrator: data.                                                     *)
(***************************************************************************)
\* SpecReq: number of process_request calls in one run.
MaxRequests == 4

FILTER_MAX_RETRIES == 3
FILTER_REQUIRE_USER_CONSENT_off == FALSE

FILTER_REQUIRE_USER_CONSENT == TRUE
MEMORY_ENABLED == TRUE

Threads == {1, 2}

\* RootAgent._register_tools: the names of the registry.
REGISTRY ==
    {"token_generator", "verify_clinician_credentials",
     "check_patient_consent_status", "fetch_patient_record",
     "log_access_to_audit_trail", "record_appender", "pdf_generator",
     "report_summarizer"}

\* A step of a sequence the oracle returned.  shape "dict" is an object with
\* the keys it has (tool is NULL when the key is missing; token_id is "ABSENT"
\* when params has no token_id); shape "str" is a bare string, which the
\* oracle is known to return for a step.
Step(tool, token_id) == [shape |-> "dict", tool |-> tool, token_id |-> token_id]
StrStep == [shape |-> "str", tool |-> NULL, token_id |-> "ABSENT"]

VERIFY == Step("verify_clinician_credentials", "ABSENT")
CONSENT == Step("check_patient_consent_status", "ABSENT")
FETCH == Step("fetch_patient_record", "ABSENT")
LOG(token_id) == Step("log_access_to_audit_trail", token_id)

\* The plans the planning oracle returns in the model: the full sequence, one
\* that skips verification and consent, one that names an operation the
\* registry does not have, the empty plan and a list of strings.
Plans ==
    { <<VERIFY, CONSENT, FETCH, LOG("ABSENT")>>,
      <<FETCH, LOG("SESSION_TOKEN")>>,
      <<VERIFY, Step("export_all_records", "ABSENT"), FETCH>>,
      <<>>,
      <<StrStep>> }

\* The corrected sequences the validating oracle returns in the model: one
\* inside a ValidationResult, and those of generate_corrected_sequence, which
\* accepts any JSON list: one of them has a bare string for a step.
CorrectedInResult == <<VERIFY, CONSENT, FETCH, LOG("TOKEN")>>

Corrections ==
    { <<VERIFY, CONSENT, FETCH, LOG("TOKEN")>>,
      <<CONSENT, LOG("OTHER_TOKEN")>>,
      <<VERIFY, StrStep>> }

\* An Optional value is a sequence: <<>> is None, <<v>> is v.
None == <<>>
Some(v) == <<v>>

\* A ValidationResult as process_request reads it.  valid and allow_retry
\* are what .get() returns as a truth value (a missing key is falsy).
Validation(valid, vtype, severity, retry, corrected, consent) ==
    [valid |-> valid, violation_type |-> vtype, severity |-> severity,
     allow_retry |-> retry, corrected_sequence |-> corrected,
     requires_user_consent |-> consent]

\* What validate_planned_execution returns when the oracle's answer parses.
Validations ==
    { Validation(TRUE, "none", "none", FALSE, None, FALSE) } \cup
    { Validation(FALSE, "sequence_violation", sev, retry, corr, consent) :
        sev \in {"error", "critical"}, retry \in BOOLEAN,
        corr \in {None, Some(CorrectedInResult)}, consent \in BOOLEAN }

\* ... when it does not parse (json.JSONDecodeError) ...
ValidationDecodeError ==
    Validation(FALSE, "validation_error", "error", FALSE, None, FALSE)

\* ... and when the call raises: utils.handle_error's dict, which has none
\* of the keys.
ValidationException ==
    Validation(FALSE, "absent", "absent", FALSE, None, FALSE)

NoValidation == Validation(FALSE, "unset", "unset", FALSE, None, FALSE)

\* A StepResult: success, the two flags the operations add (absent, true or
\* false) and the kind of error.
Result(success, verified, consent_granted, error) ==
    [success |-> success, verified |-> verified,
     consent_granted |-> consent_granted, error |-> error]

\* What each operation of the registry can return.
ToolResults(tool) ==
    IF tool = "verify_clinician_credentials"
    THEN { Result(TRUE, "true", "absent", "none"),
           Result(TRUE, "false", "absent", "not_found"),
           Result(FALSE, "false", "absent", "invalid_format") }
    ELSE IF tool = "check_patient_consent_status"
    THEN { Result(TRUE, "absent", "true", "none"),
           Result(TRUE, "absent", "false", "no_consent"),
           Result(FALSE, "absent", "false", "invalid_format") }
    ELSE { Result(TRUE, "absent", "absent", "none"),
           Result(FALSE, "absent", "absent", "failed") }

\* The result _execute_sequence makes of a missing operation and of an
\* exception.
NotFoundResult == Result(FALSE, "absent", "absent", "tool_not_found")
ExceptionResult == Result(FALSE, "absent", "absent", "exception")

\* The tokens token_generator_tool returns, in the order it returns them: the
\* random part makes each one new.
TokenNames ==
    <<"HIPAA_A_1", "HIPAA_B_2", "HIPAA_C_3", "HIPAA_D_4", "HIPAA_E_5",
      "HIPAA_F_6", "HIPAA_G_7", "HIPAA_H_8">>

\* What process_request returns: _format_response's dict ("format"),
\* _error_response's ("error") or utils.handle_error's ("exception", which
\* has no session_token, here NULL).
NoResponse ==
    [kind |-> "none", success |-> FALSE, error |-> "none",
     violation_info |-> None, session_token |-> NULL,
     executed_sequence |-> <<>>, results |-> <<>>, valid |-> FALSE]

\* The locals of a thread that is not inside process_request, and how often
\* the request has called validate_planned_execution,
\* generate_corrected_sequence, _execute_sequence,
\* validate_execution_result and MemoryManager.remember; planning_token,
\* context_token: the session token written into the planning prompt and into
\* the request context of the validation; consent: what the caller answered when
\* _handle_retry asked.
Idle ==
    [pc |-> "idle", query |-> NULL, clinician_id |-> NULL, patient_id |-> NULL,
     minted |-> NULL, plan |-> <<>>, validation |-> NoValidation,
     reason |-> "none", path |-> "none", seq |-> <<>>, i |-> 1,
     results |-> <<>>, calls |-> <<>>, post_valid |-> "uncalled",
     retry_at_entry |-> 0, response |-> NoResponse, store_failed |-> FALSE,
     n_validate_planned |-> 0, n_generate_corrected |-> 0,
     n_execute_sequence |-> 0, n_validate_result |-> 0, n_remember |-> 0,
     consent |-> "unasked", planning_token |-> NULL, context_token |-> NULL]

\* RootAgent.__init__ and FilterAgent.__init__.
InitReq ==
    /\ current_session_token = NULL
    /\ retry_count = 0
    /\ violation_count = 0
    /\ nTokens = 0
    /\ loc = [th \in Threads |-> Idle]

NoStats == [total_sessions |-> 0, active_sessions |-> 0, expired_sessions |-> 0]

\* Whether an exception of the storage layer leaves the method: every method
\* of the store has its whole body in try ... except Exception.
propagates_uncaught(state) == state # "ok"

propagates(state) == FALSE

\* A call of the store: its arguments, whether the storage layer failed in
\* it, whether it raised, and what it returned (ret_ok: the bool of remember
\* and forget).
Call(op, s, p, c, a, row, n, stats) ==
    [op |-> op, sid |-> s, patient_id |-> p, clinician_id |-> c, action |-> a,
     failed |-> storage # "ok", raised |-> propagates(storage),
     ret_ok |-> storage = "ok",
     ret_row |-> row, ret_count |-> n, ret_stats |-> stats]

\* get_statistics' return {} ...
EmptyStats == <<>>

\* The connection is open and works.
InitFault == storage = "ok"

\* MemoryManager.__init__ on a fresh database: the table is created empty and
\* the first cleanup_expired_sessions finds nothing.
InitStore ==
    /\ store = <<>>
    /\ now = 0
    /\ written = <<>>
    /\ last = Call("init", NULL, NULL, NULL, NULL, <<>>, 0, NoStats)
    /\ nRemember = 0

\* A thread that is not inside a store method.
NoCall ==
    [pc |-> "idle", op |-> "none", sid |-> NULL, patient_id |-> NULL,
     clinician_id |-> NULL, action |-> NULL, t |-> 0, existing |-> <<>>,
     ret_ok |-> TRUE, ret_row |-> <<>>, ret_count |-> 0, ret_stats |-> NoStats]

\* threading.Lock() is created unlocked; no thread is inside a method.
InitConc ==
    /\ db_lock = 0
    /\ mcall = [th \in Threads |-> NoCall]
    /\ serial = <<>>
    /\ nCalls = 0

\* No call of generate_session_token is under way.
InitToken ==
    tok = [pc |-> "idle", random_part |-> <<>>, timestamp |-> <<>>,
           token |-> <<>>]

\* A thread that is not inside log_to_audit_trail.
NoLog == [pc |-> "idle", entry |-> <<>>, data |-> <<>>, ret |-> TRUE]

\* A fresh installation: the logs directory holds no audit trail yet.
InitAudit ==
    /\ AUDIT_LOG = [kind |-> "missing", items |-> <<>>]
    /\ alog = [th \in Threads |-> NoLog]
    /\ logged = <<>>
    /\ nLog = 0

Init ==
    InitFault /\ InitStore /\ InitReq /\ InitConc /\ InitToken /\ InitAudit

\* Wall-clock time passes between two calls.
Tick(d) ==
    /\ now' = now + d
    /\ last' = Call("tick", NULL, NULL, NULL, NULL, <<>>, 0, NoStats)
    /\ UNCHANGED <<store, written, nRemember>>

\* remember(session_id, patient_id, clinician_id, action) -> True
Remember(s, p, c, a) ==
    /\ store' = IF storage = "ok" THEN remember(store, now, s, p, c, a) ELSE store
    /\ written' =
         IF storage # "ok" THEN written ELSE
         LET new == IF Truthy(a) THEN <<HistoryEntry(now, p, c, a)>> ELSE <<>>
             old == IF s \in DOMAIN written THEN written[s].appended ELSE <<>>
         IN  Put(written, s, [at |-> now, appended |-> old \o new])
    /\ nRemember' = nRemember + 1
    /\ last' = Call("remember", s, p, c, a, <<>>, 0, NoStats)
    /\ UNCHANGED now

\* recall(session_id) -> row or None
Recall(s) ==
    /\ store' = IF storage = "ok" THEN recall_table(store, now, s) ELSE store
    /\ written' = Drop(written, DOMAIN written \ DOMAIN store')
    /\ last' = Call("recall", s, NULL, NULL, NULL,
                    IF storage = "ok" THEN recall(store, now, s) ELSE None, 0,
                    NoStats)
    /\ UNCHANGED <<now, nRemember>>

\* forget(session_id) -> True
Forget(s) ==
    /\ store' = IF storage = "ok" THEN forget(store, s) ELSE store
    /\ written' = Drop(written, DOMAIN written \ DOMAIN store')
    /\ last' = Call("forget", s, NULL, NULL, NULL, <<>>, 0, NoStats)
    /\ UNCHANGED <<now, nRemember>>

\* cleanup_expired_sessions() -> deleted_count
Cleanup ==
    /\ store' = IF storage = "ok" THEN Drop(store, cleanup_rows(store, now))
                ELSE store
    /\ written' = Drop(written, DOMAIN written \ DOMAIN store')
    /\ last' = Call("cleanup", NULL, NULL, NULL, NULL, <<>>,
                    IF storage = "ok" THEN Cardinality(cleanup_rows(store, now))
                    ELSE 0,
                    NoStats)
    /\ UNCHANGED <<now, nRemember>>

\* get_statistics() -> {total_sessions, active_sessions, expired_sessions}
Statistics ==
    /\ last' = Call("statistics", NULL, NULL, NULL, NULL, <<>>, 0,
                    IF storage = "ok" THEN get_statistics(store, now)
                    ELSE EmptyStats)
    /\ UNCHANGED <<store, now, written, nRemember>>

(***************************************************************************)
(* SpecStore: two sessions, a few remember calls of every kind (all        *)
(* fields, patient and action, patient only, clinician and action, no      *)
(* field, an empty action) and a clock that moves through the instants     *)
(* around the expiry of a row written at 0 or 1.                           *)
(***************************************************************************)
RememberArgs ==
    { <<"PT_0001", "DR_0001", "access">>,
      <<"PT_0002", NULL, "report">>,
      <<"PT_0002", NULL, NULL>>,
      <<NULL, "DR_0001", "access">>,
      <<NULL, NULL, NULL>>,
      <<NULL, NULL, "">> }

Instants == {0, 1, TTL, TTL + 1, TTL + FracPerSec}

StoreStep ==
    \/ \E t \in Instants : t > now /\ Tick(t - now)
    \/ \E s \in SessionIds, x \in RememberArgs :
          nRemember < MaxRemember /\ Remember(s, x[1], x[2], x[3])
    \/ \E s \in SessionIds : Recall(s)
    \/ \E s \in SessionIds : Forget(s)
    \/ Cleanup
    \/ Statistics

NextStore ==
    StoreStep /\ UNCHANGED reqVars /\ UNCHANGED concVars /\ UNCHANGED auxVars

SpecStore == Init /\ [][NextStore]_vars

(***************************************************************************)
(* SpecHist: one session written more often than its history holds, with   *)
(* two actions, a patient id or none, no action and an empty action.       *)
(***************************************************************************)
HistArgs ==
    { <<NULL, NULL, "access">>,
      <<"PT_0001", NULL, "report">>,
      <<NULL, NULL, NULL>>,
      <<NULL, NULL, "">> }

HistInstants == {0, 1}

HistStep ==
    \/ \E t \in HistInstants : t > now /\ Tick(t - now)
    \/ \E x \in HistArgs :
          nRemember < MaxHistRemember /\ Remember("S1", x[1], x[2], x[3])
    \/ Recall("S1")
    \/ Forget("S1")

NextHist ==
    HistStep /\ UNCHANGED reqVars /\ UNCHANGED concVars /\ UNCHANGED auxVars

SpecHist == Init /\ [][NextHist]_vars

(***************************************************************************)
(* Claims about the Session Memory Store.                                  *)
(***************************************************************************)
\* The value a remember that supplied v (NULL: omitted) must leave in a field
\* that held old (NULL: no row, or nothing stored).
Merged(v, old) == IF v = NULL THEN old ELSE v

OldRow(s) ==
    IF s \in DOMAIN store THEN store[s]
    ELSE [clinician_id |-> NULL, last_patient_id |-> NULL, last_action |-> NULL]

\* C6: field-preserving merge.  Every remember leaves in clinician_id,
\* last_patient_id and last_action the value it supplied, or the value stored
\* before when it omitted the field; and a recall right after a remember of
\* the same session returns the row with the fields just written.
C6_FieldPreservingMerge ==
    [][ /\ last'.op = "remember" =>
             LET s == last'.sid IN
             /\ s \in DOMAIN store'
             /\ store'[s].clinician_id =
                    Merged(last'.clinician_id, OldRow(s).clinician_id)
             /\ store'[s].last_patient_id =
                    Merged(last'.patient_id, OldRow(s).last_patient_id)
             /\ store'[s].last_action =
                    Merged(last'.action, OldRow(s).last_action)
        /\ (last.op = "remember" /\ last'.op = "recall" /\ last'.sid = last.sid) =>
             /\ Len(last'.ret_row) = 1
             /\ last.clinician_id # NULL =>
                    last'.ret_row[1].clinician_id = last.clinician_id
             /\ last.patient_id # NULL =>
                    last'.ret_row[1].last_patient_id = last.patient_id
             /\ last.action # NULL =>
                    last'.ret_row[1].last_action = last.action
      ]_vars

\* C6 witness: remember(clinician, action) then remember(patient only) of the
\* same session: the row holds the clinician and action of the first call and
\* the patient of the second.
C6_Witness ==
    /\ last.op = "remember"
    /\ last.patient_id = "PT_0002" /\ last.clinician_id = NULL /\ last.action = NULL
    /\ last.sid \in DOMAIN store
    /\ store[last.sid].clinician_id = "DR_0001"
    /\ store[last.sid].last_action = "access"
    /\ store[last.sid].last_patient_id = "PT_0002"
    /\ Len(written[last.sid].appended) = 1
    /\ written[last.sid].appended[1].patient_id = NULL

\* The last n elements of q, in their order.
Suffix(q, n) ==
    LET k == IF Len(q) > n THEN n ELSE Len(q)
    IN  [i \in 1..k |-> q[Len(q) - k + i]]

\* C7: history bound with FIFO eviction.  The stored history never has more
\* than MAX_CONVERSATION_HISTORY entries and is the tail of the entries
\* appended to the row, in their order; a remember with an action appends
\* exactly one entry (of that action, patient and clinician) and a remember
\* without one leaves the history as it was.
C7_HistoryBound ==
    /\ [](\A s \in DOMAIN store :
            /\ Len(store[s].conversation_history) <= MAX_CONVERSATION_HISTORY
            /\ store[s].conversation_history =
                   Suffix(written[s].appended, MAX_CONVERSATION_HISTORY))
    /\ [][ last'.op = "remember" =>
             LET s == last'.sid
                 h0 == IF s \in DOMAIN store
                       THEN store[s].conversation_history ELSE <<>>
                 h1 == store'[s].conversation_history
             IN  IF Truthy(last'.action)
                 THEN /\ Len(h1) >= 1
                      /\ h1[Len(h1)].action = last'.action
                      /\ h1[Len(h1)].patient_id = last'.patient_id
                      /\ h1[Len(h1)].clinician_id = last'.clinician_id
                      /\ SubSeq(h1, 1, Len(h1) - 1) =
                             Suffix(h0, MAX_CONVERSATION_HISTORY - 1)
                 ELSE h1 = h0
         ]_vars

\* C7 witness: two more appends than the history holds, and the history full.
C7_Witness ==
    /\ "S1" \in DOMAIN store
    /\ Len(written["S1"].appended) = MAX_CONVERSATION_HISTORY + 2
    /\ Len(store["S1"].conversation_history) = MAX_CONVERSATION_HISTORY
    /\ store["S1"].conversation_history[1] # written["S1"].appended[1]

\* C8: sliding TTL.  Every row expires one TTL after the last remember of its
\* session, and recall returns the row exactly when the row exists and now is
\* before that instant; what it returns is the stored row.
C8_SlidingTTL ==
    /\ \A s \in DOMAIN store :
           store[s].expires_at = isoformat(written[s].at + TTL)
    /\ last.op = "recall" =>
           /\ (last.ret_row # <<>>) <=>
                  (last.sid \in DOMAIN store /\ now < written[last.sid].at + TTL)
           /\ last.ret_row # <<>> => last.ret_row = <<store[last.sid]>>

\* C8 witness: a row first written at 0 and written again at 1 is still
\* returned at TTL, when the first write's TTL has elapsed.
C8_Witness ==
    /\ last.op = "recall" /\ last.ret_row # <<>>
    /\ now = TTL
    /\ written[last.sid].at = 1
    /\ store[last.sid].conversation_history # <<>>
    /\ store[last.sid].conversation_history[1].timestamp = isoformat(0)

\* C8, second case: TTL = 12 h, write at T0, recall at T0 + 12 h + 1 s is none.
C8_ExpiredWitness ==
    /\ last.op = "recall" /\ last.ret_row = <<>>
    /\ last.sid \in DOMAIN store
    /\ now = written[last.sid].at + TTL + FracPerSec

\* C9: sweep removes what recall hides.  Every cleanup removes each row that
\* recall no longer returns, returns the number of rows it removed and removes
\* no row that recall still returns.
C9_SweepRemovesHidden ==
    [][ last'.op = "cleanup" =>
          /\ \A s \in DOMAIN store :
                 recall(store, now, s) = <<>> => s \notin DOMAIN store'
          /\ last'.ret_count = Cardinality(DOMAIN store \ DOMAIN store')
          /\ \A s \in DOMAIN store \ DOMAIN store' : recall(store, now, s) = <<>>
      ]_vars

\* C10: recall has no side effect.  recall (and get_statistics) leave the
\* table as it was, rows and fields, and a row leaves the table only in a
\* forget or a cleanup.
C10_RecallNoSideEffect ==
    [][ /\ last'.op \in {"recall", "statistics"} => store' = store
        /\ DOMAIN store \ DOMAIN store' # {} => last'.op \in {"forget", "cleanup"}
      ]_vars

\* C10 witness: recall of an expired session returned none and the row is
\* still in the table.
C10_Witness ==
    /\ last.op = "recall" /\ last.ret_row = <<>>
    /\ last.sid \in DOMAIN store
    /\ now >= written[last.sid].at + TTL

(***************************************************************************)
(* Orchestrator: RootAgent.process_request, one action per stretch of it   *)
(* between two uses of the state the threads share.                        *)
(***************************************************************************)
\* Python truthiness of an Optional[list]: None and [] are falsy.
HasList(c) == c # None /\ c[1] # <<>>

\* RootAgent._error_response.
ErrorResponse(msg, violation_info) ==
    [kind |-> "error", success |-> FALSE, error |-> msg,
     violation_info |-> violation_info,
     session_token |-> current_session_token,
     executed_sequence |-> <<>>, results |-> <<>>, valid |-> FALSE]

\* utils.handle_error, as process_request's except clause returns it.
ExceptionResponse ==
    [kind |-> "exception", success |-> FALSE, error |-> "process_request",
     violation_info |-> None, session_token |-> NULL,
     executed_sequence |-> <<>>, results |-> <<>>, valid |-> FALSE]

\* RootAgent._format_response; valid is validation.get("valid", True).
FormatResponse(sequence, results, valid) ==
    [kind |-> "format",
     success |-> (\A k \in 1..Len(results) : results[k].success) /\ valid,
     error |-> "none", violation_info |-> None,
     session_token |-> current_session_token,
     executed_sequence |-> sequence, results |-> results, valid |-> valid]

\* process_request returns r.
Returns(L, r) == [L EXCEPT !.pc = "done", !.response = r]

\* _execute_sequence(sequence) is entered; the loop body runs once per step.
Enters_revalidated(L, sequence, path) ==
    IF path = "retry"
    THEN [L EXCEPT !.pc = "validate", !.plan = sequence]
    ELSE [L EXCEPT !.pc = IF sequence = <<>> THEN "executed" ELSE "exec",
                   !.seq = sequence, !.path = path, !.i = 1, !.results = <<>>,
                   !.n_execute_sequence = @ + 1]

Enters(L, sequence, path) ==
    [L EXCEPT !.pc = IF sequence = <<>> THEN "executed" ELSE "exec",
              !.seq = sequence, !.path = path, !.i = 1, !.results = <<>>,
              !.n_execute_sequence = @ + 1]

\* 1. Generate session token.  ok: token_generator_tool returned success.
Start(th, q, c, p, ok) ==
    /\ loc[th].pc = "idle"
    /\ nTokens < MaxRequests
    /\ nTokens' = nTokens + 1
    /\ IF ok
       THEN /\ current_session_token' = TokenNames[nTokens + 1]
            /\ loc' = [loc EXCEPT ![th] =
                         [Idle EXCEPT !.pc = "recall", !.query = q,
                                      !.clinician_id = c, !.patient_id = p,
                                      !.minted = TokenNames[nTokens + 1],
                                      !.retry_at_entry = retry_count]]
       ELSE /\ loc' = [loc EXCEPT ![th] =
                         Returns([Idle EXCEPT !.query = q, !.clinician_id = c,
                                              !.patient_id = p,
                                              !.retry_at_entry = retry_count],
                                 ErrorResponse("Failed to generate session token",
                                               None))]
            /\ UNCHANGED current_session_token
    /\ UNCHANGED <<store, now, memVars, retry_count, violation_count>>

\* 2. Context recall, under the session token.
ContextRecall(th) ==
    LET L == loc[th]
        asks == MEMORY_ENABLED /\ (~Truthy(L.patient_id) \/ ~Truthy(L.clinician_id))
        recalled == IF asks /\ storage = "ok"
                    THEN recall(store, now, current_session_token) ELSE None
        p == IF recalled # None /\ ~Truthy(L.patient_id)
                /\ Truthy(recalled[1].last_patient_id)
             THEN recalled[1].last_patient_id ELSE L.patient_id
        c == IF recalled # None /\ ~Truthy(L.clinician_id)
                /\ Truthy(recalled[1].clinician_id)
             THEN recalled[1].clinician_id ELSE L.clinician_id
    IN  /\ L.pc = "recall"
        /\ store' = IF asks /\ storage = "ok"
                    THEN recall_table(store, now, current_session_token)
                    ELSE store
        /\ loc' = [loc EXCEPT ![th] =
                     IF asks /\ propagates(storage)
                     THEN Returns(L, ExceptionResponse)
                     ELSE [L EXCEPT !.pc = "plan", !.patient_id = p,
                                    !.clinician_id = c,
                                    !.store_failed = asks /\ storage # "ok"]]
        /\ UNCHANGED <<now, memVars, current_session_token, retry_count,
                       violation_count, nTokens>>

\* A plan whose steps the loop that prints it can read: step['tool'] raises
\* on a string and on an object without the key.
Printable(plan) ==
    \A k \in 1..Len(plan) : plan[k].shape = "dict" /\ plan[k].tool # NULL

\* 3. Agent planning.  answer: the oracle call raises, returns text that is
\* not JSON, or returns the plan.
Planning(th, answer, plan) ==
    LET L == [loc[th] EXCEPT !.planning_token = current_session_token]
    IN  /\ L.pc = "plan"
        /\ loc' = [loc EXCEPT ![th] =
                     IF answer = "raise" THEN Returns(L, ExceptionResponse)
                     ELSE IF answer = "undecodable"
                     THEN Returns(L, ErrorResponse(
                              "Agent failed to generate a valid plan", None))
                     ELSE IF ~Printable(plan) THEN Returns(L, ExceptionResponse)
                     ELSE [L EXCEPT !.pc = "validate", !.plan = plan]]
        /\ UNCHANGED <<store, now, memVars, current_session_token, retry_count,
                       violation_count, nTokens>>

GateDecision_execute_always(v) == "execute"

GateDecision_retry_invalid(v) == IF v.valid THEN "execute" ELSE "retry"

\* What process_request does with the pre-execution ValidationResult v.
GateDecision(v) ==
    IF v.valid THEN "execute" ELSE IF v.allow_retry THEN "retry" ELSE "reject"

\* 4. Policy validation: FilterAgent.validate_planned_execution and the
\* branch on its result.
PolicyValidation(th, v) ==
    LET L == [loc[th] EXCEPT !.validation = v, !.n_validate_planned = @ + 1,
                             !.context_token = current_session_token]
    IN  /\ loc[th].pc = "validate"
        /\ violation_count' =
               IF v \in Validations /\ ~v.valid
               THEN violation_count + 1 ELSE violation_count
        /\ loc' = [loc EXCEPT ![th] =
                     CASE GateDecision(v) = "execute" -> Enters(L, L.plan, "normal")
                       [] GateDecision(v) = "retry" -> [L EXCEPT !.pc = "retry"]
                       [] OTHER -> Returns(L, ErrorResponse("Policy violation",
                                                            Some(v)))]
        /\ UNCHANGED <<store, now, memVars, current_session_token, retry_count,
                       nTokens>>

\* _handle_retry up to the fallback: the caller is asked, and the corrected
\* sequence of the ValidationResult, when it has one, is executed.
RetryConsent(th, consent) ==
    LET L == [loc[th] EXCEPT !.consent = IF ~FILTER_REQUIRE_USER_CONSENT THEN "unasked"
                                         ELSE IF consent THEN "granted"
                                         ELSE "declined"]
        corrected == L.validation.corrected_sequence
    IN  /\ L.pc = "retry"
        /\ loc' = [loc EXCEPT ![th] =
                     IF FILTER_REQUIRE_USER_CONSENT /\ ~consent
                     THEN Returns(L, ErrorResponse("User declined retry",
                                                   Some(L.validation)))
                     ELSE IF HasList(corrected)
                     THEN Enters(L, corrected[1], "retry")
                     ELSE [L EXCEPT !.pc = "handle_retry"]]
        /\ UNCHANGED <<store, now, memVars, current_session_token, retry_count,
                       violation_count, nTokens>>

\* FilterAgent.handle_retry before it asks the oracle: the reason for which
\* it refuses, or "none".
RetryRefusal(severity, retries) ==
    IF severity = "critical" THEN "critical"
    ELSE IF retries >= FILTER_MAX_RETRIES THEN "max_retries"
    ELSE "none"

\* The fallback of _handle_retry: FilterAgent.handle_retry refuses, and
\* _handle_retry, which reads corrected_request only, returns.
HandleRetry(th) ==
    LET L == loc[th]
        severity == IF L.validation.severity = "absent" THEN "error"
                    ELSE L.validation.severity
        refusal == RetryRefusal(severity, retry_count)
    IN  /\ L.pc = "handle_retry"
        /\ loc' = [loc EXCEPT ![th] =
                     IF refusal # "none"
                     THEN Returns([L EXCEPT !.reason = refusal],
                                  ErrorResponse(
                                      "Unable to generate corrected sequence", None))
                     ELSE [L EXCEPT !.pc = "correct"]]
        /\ UNCHANGED <<store, now, memVars, current_session_token, retry_count,
                       violation_count, nTokens>>

\* FilterAgent.handle_retry from generate_corrected_sequence on, and the rest
\* of _handle_retry.  corrected: what the oracle returned (None also when the
\* call raised or the answer was no list).
Correct(th, corrected) ==
    LET L == [loc[th] EXCEPT !.n_generate_corrected = @ + 1]
    IN  /\ L.pc = "correct"
        /\ IF HasList(corrected)
           THEN /\ retry_count' = retry_count + 1
                /\ loc' = [loc EXCEPT ![th] = Enters(L, corrected[1], "retry")]
           ELSE /\ loc' = [loc EXCEPT ![th] =
                             Returns([L EXCEPT !.reason = "no_correction"],
                                     ErrorResponse(
                                         "Unable to generate corrected sequence",
                                         None))]
                /\ UNCHANGED retry_count
        /\ UNCHANGED <<store, now, memVars, current_session_token,
                       violation_count, nTokens>>

\* The token the audit-logging operation is called with.
NormalizedToken(step) ==
    IF step.tool = "log_access_to_audit_trail"
       /\ step.token_id \in {"ABSENT", "SESSION_TOKEN", "TOKEN"}
    THEN current_session_token ELSE step.token_id

\* Whether the loop of _execute_sequence breaks after this result.
Stops_on_failure_only(tool, result) == ~result.success

Stops_on_consent_only(tool, result) ==
    result.success /\ tool = "check_patient_consent_status"
    /\ result.consent_granted = "false"

Stops(tool, result) ==
    IF result.success
    THEN tool = "check_patient_consent_status" /\ result.consent_granted = "false"
    ELSE TRUE

\* One pass of the loop of _execute_sequence.  out: what the operation
\* returned, or ExceptionResult when the call raised.
ExecStep(th, out) ==
    LET L == loc[th]
        step == L.seq[L.i]
        found == step.tool \in REGISTRY
        result == IF found THEN out ELSE NotFoundResult
        stepped == [L EXCEPT
                      !.seq[L.i].token_id = IF found THEN NormalizedToken(step) ELSE @,
                      !.calls = IF found
                                THEN Append(@, [index |-> L.i, tool |-> step.tool,
                                                given |-> step.token_id,
                                                token_id |-> NormalizedToken(step)])
                                ELSE @,
                      !.results = Append(@, result)]
    IN  /\ L.pc = "exec"
        /\ L.i <= Len(L.seq)
        /\ step.shape = "dict" /\ step.tool \in REGISTRY =>
               out \in ToolResults(step.tool) \cup {ExceptionResult}
        /\ step.shape # "dict" \/ step.tool \notin REGISTRY => out = NotFoundResult
        /\ loc' = [loc EXCEPT ![th] =
                     IF step.shape # "dict" THEN Returns(L, ExceptionResponse)
                     ELSE IF Stops(step.tool, result) \/ L.i = Len(L.seq)
                     THEN [stepped EXCEPT !.pc = "executed"]
                     ELSE [stepped EXCEPT !.i = L.i + 1]]
        /\ UNCHANGED <<store, now, memVars, current_session_token, retry_count,
                       violation_count, nTokens>>

\* 6. Post-execution validation (the valid plan's path only).  valid: what the
\* oracle's answer has under "valid"; "absent" when the call raised.
PostValidation(th, valid) ==
    LET L == loc[th]
    IN  /\ L.pc = "executed" /\ L.path = "normal"
        /\ loc' = [loc EXCEPT ![th] = [L EXCEPT !.pc = "memory", !.post_valid = valid,
                                                !.n_validate_result = @ + 1]]
        /\ UNCHANGED <<store, now, memVars, current_session_token, retry_count,
                       violation_count, nTokens>>

\* 7. Memory update, under the session token.
MemoryUpdate(th) ==
    LET L == loc[th]
        stores == MEMORY_ENABLED /\ Truthy(L.patient_id) /\ Truthy(L.clinician_id)
    IN  /\ L.pc = "memory"
        /\ store' = IF stores /\ storage = "ok"
                    THEN remember(store, now, current_session_token,
                                  L.patient_id, L.clinician_id, L.query)
                    ELSE store
        /\ loc' = [loc EXCEPT ![th] =
                     IF stores /\ propagates(storage)
                     THEN Returns(L, ExceptionResponse)
                     ELSE [L EXCEPT !.pc = "format",
                                    !.n_remember = IF stores THEN @ + 1 ELSE @,
                                    !.store_failed = @ \/ (stores /\ storage # "ok")]]
        /\ UNCHANGED <<now, memVars, current_session_token, retry_count,
                       violation_count, nTokens>>

\* What _handle_retry returns after it executed the corrected sequence.
RetryResponse_error_on_failure(L) ==
    IF \A k \in 1..Len(L.results) : L.results[k].success
    THEN FormatResponse(L.seq, L.results, TRUE)
    ELSE ErrorResponse("Unable to generate corrected sequence", None)

RetryResponse(L) == FormatResponse(L.seq, L.results, TRUE)

\* 8. The return of process_request after an execution.
Format(th) ==
    LET L == loc[th]
    IN  /\ \/ L.pc = "format"
           \/ L.pc = "executed" /\ L.path = "retry"
        /\ loc' = [loc EXCEPT ![th] =
                     Returns(L, IF L.path = "retry" THEN RetryResponse(L)
                                ELSE FormatResponse(L.seq, L.results,
                                                    L.post_valid # "false"))]
        /\ UNCHANGED <<store, now, memVars, current_session_token, retry_count,
                       violation_count, nTokens>>

\* The caller has the result; the thread is free for the next request.
Return(th) ==
    /\ loc[th].pc = "done"
    /\ loc' = [loc EXCEPT ![th] = Idle]
    /\ UNCHANGED <<store, now, memVars, current_session_token, retry_count,
                   violation_count, nTokens>>

(***************************************************************************)
(* SpecReq: one caller makes MaxRequests requests one after the other on   *)
(* the process's RootAgent and FilterAgent.                                *)
(***************************************************************************)
PostValid == {"true", "false", "absent"}

NextReq ==
    \/ \E p \in {NULL, "PT_0001"}, ok \in BOOLEAN :
          Start(1, "access record", "DR_0001", p, ok)
    \/ ContextRecall(1)
    \/ \E answer \in {"raise", "undecodable"} : Planning(1, answer, <<>>)
    \/ \E plan \in Plans : Planning(1, "plan", plan)
    \/ \E v \in Validations \cup {ValidationDecodeError, ValidationException} :
          PolicyValidation(1, v)
    \/ \E consent \in BOOLEAN : RetryConsent(1, consent)
    \/ HandleRetry(1)
    \/ \E corrected \in {None, Some(<<>>)} \cup {Some(x) : x \in Corrections} :
          Correct(1, corrected)
    \/ \E out \in UNION {ToolResults(t) : t \in REGISTRY}
                  \cup {ExceptionResult, NotFoundResult} : ExecStep(1, out)
    \/ \E valid \in PostValid : PostValidation(1, valid)
    \/ MemoryUpdate(1)
    \/ Format(1)
    \/ Return(1)

SpecReq == Init /\ [][NextReq]_vars

(***************************************************************************)
(* Claims about the Execution Pipeline and the Policy Gate.                *)
(***************************************************************************)
\* No operation was invoked for a step after step k of the thread's sequence.
NoCallAfter(L, k) == \A c \in 1..Len(L.calls) : L.calls[c].index <= k

\* The result of step k is the last one, the loop is over and, once
\* process_request has returned the execution's results, they end with it.
HaltedAt(L, k) ==
    /\ k = Len(L.results)
    /\ NoCallAfter(L, k)
    /\ L.pc # "exec"
    /\ (L.pc = "done" /\ L.response.kind = "format") =>
           /\ Len(L.response.results) = k
           /\ L.response.results[k] = L.results[k]

\* C1: stop on first failure.  Once a step's result has success = false, no
\* later step of the sequence is invoked and the list of results ends with
\* that result.
C1_StopOnFirstFailure ==
    \A th \in Threads :
        \A k \in 1..Len(loc[th].results) :
            ~loc[th].results[k].success => HaltedAt(loc[th], k)

\* C1 witness: of four steps the first succeeded and the second failed; the
\* pipeline returned two results and invoked two operations.
C1_Witness ==
    /\ loc[1].pc = "done" /\ loc[1].response.kind = "format"
    /\ Len(loc[1].seq) = 4
    /\ Len(loc[1].response.results) = 2
    /\ loc[1].response.results[1].success
    /\ ~loc[1].response.results[2].success
    /\ Len(loc[1].calls) = 2

ConsentDenied(L, k) ==
    /\ L.seq[k].tool = "check_patient_consent_status"
    /\ L.results[k].success
    /\ L.results[k].consent_granted = "false"

\* C2: consent denial halts the pipeline.  Once check_patient_consent_status
\* returned success = true with consent_granted = false, no later step is
\* invoked and the list of results ends with that result.
C2_ConsentDenialHalts ==
    \A th \in Threads :
        \A k \in 1..Len(loc[th].results) :
            ConsentDenied(loc[th], k) => HaltedAt(loc[th], k)

\* C2 witness: verify succeeded, the consent check denied; two results are
\* returned, the second with the denial, and fetch_patient_record was not
\* invoked.
C2_Witness ==
    /\ loc[1].pc = "done" /\ loc[1].response.kind = "format"
    /\ Len(loc[1].response.results) = 2
    /\ loc[1].response.results[1].success
    /\ ConsentDenied(loc[1], 2)
    /\ loc[1].response.results[2].consent_granted = "false"
    /\ loc[1].seq[3].tool = "fetch_patient_record"
    /\ \A c \in 1..Len(loc[1].calls) : loc[1].calls[c].tool # "fetch_patient_record"

\* The request was found in violation by a parsed ValidationResult.
Violation(L) == L.validation \in Validations /\ ~L.validation.valid

\* process_request returned a rejection of the Policy Gate.
Rejected(L) ==
    /\ L.pc = "done"
    /\ L.response.kind = "error"
    /\ L.response.error \in {"Policy violation", "User declined retry",
                             "Unable to generate corrected sequence"}

\* C3: a critical violation is always rejected.  A request whose
\* ValidationResult has valid = false and severity = critical never enters
\* the pipeline, invokes no operation and ends REJECTED.
C3_CriticalAlwaysRejected ==
    \A th \in Threads :
        (Violation(loc[th]) /\ loc[th].validation.severity = "critical") =>
            /\ loc[th].path = "none"
            /\ loc[th].calls = <<>>
            /\ loc[th].pc = "done" => Rejected(loc[th])

\* C4: an exhausted retry budget rejects.  A request that is found in
\* violation and asks for a retry the caller does not decline, when
\* retry_count had reached FILTER_MAX_RETRIES, executes nothing and ends
\* REJECTED with the reason that the retry attempts are exhausted.
C4_ExhaustedBudgetRejects ==
    \A th \in Threads :
        ( /\ loc[th].pc = "done"
          /\ Violation(loc[th]) /\ loc[th].validation.allow_retry
          /\ loc[th].response.error # "User declined retry"
          /\ loc[th].retry_at_entry >= FILTER_MAX_RETRIES ) =>
            /\ Rejected(loc[th])
            /\ loc[th].calls = <<>>
            /\ loc[th].response.error = "max_retries"

\* C5: a rejection executes nothing.  Whenever process_request ends REJECTED
\* (retry not allowed, retry declined, no corrected sequence), the pipeline
\* was never entered and no operation of the registry was invoked.
C5_RejectedExecutesNothing ==
    \A th \in Threads :
        Rejected(loc[th]) =>
            /\ loc[th].path = "none"
            /\ loc[th].calls = <<>>
            /\ loc[th].results = <<>>

\* C5 witness: the caller declined the retry of a violation that came with a
\* corrected sequence.
C5_Witness ==
    /\ Rejected(loc[1])
    /\ loc[1].response.error = "User declined retry"
    /\ HasList(loc[1].validation.corrected_sequence)
    /\ loc[1].calls = <<>>

(***************************************************************************)
(* Concurrent callers of the store: every method of MemoryManager, one     *)
(* action per stretch of it between two statements on the connection.      *)
(***************************************************************************)
\* SpecConc: number of store calls in one run.
MaxCalls == 3

\* with self._db_lock: the lock is taken when no thread holds it.
acquire_unlocked(holder) == TRUE

acquire(holder) == holder = 0

\* remember's SELECT conversation_history ... WHERE session_id = ?, fetchone():
\* the history of the row, or None.
select_existing(st, s) ==
    IF s \in DOMAIN st THEN Some(st[s].conversation_history) ELSE None

\* The statement remember executes after the SELECT returned existing.  The
\* UPDATE changes the row the table has then (none: it changes nothing); the
\* INSERT of a session_id the table has violates the PRIMARY KEY.
remember_write(st, t, s, p, c, a, existing) ==
    IF existing # None
    THEN IF s \in DOMAIN st
         THEN [st EXCEPT ![s] =
                 [clinician_id |-> COALESCE(c, st[s].clinician_id),
                  last_patient_id |-> COALESCE(p, st[s].last_patient_id),
                  last_action |-> COALESCE(a, st[s].last_action),
                  conversation_history |->
                      IF Truthy(a)
                      THEN LastN(Append(existing[1], HistoryEntry(t, p, c, a)),
                                 MAX_CONVERSATION_HISTORY)
                      ELSE existing[1],
                  created_at |-> st[s].created_at,
                  expires_at |-> expires_at_of(st, s, t)]]
         ELSE st
    ELSE IF s \in DOMAIN st
         THEN st
         ELSE Put(st, s,
                  [clinician_id |-> c,
                   last_patient_id |-> p,
                   last_action |-> a,
                   conversation_history |->
                       IF Truthy(a) THEN <<HistoryEntry(t, p, c, a)>> ELSE <<>>,
                   created_at |-> Digits(t \div FracPerSec, SecWidth),
                   expires_at |-> expires_at_of(st, s, t)])

\* Whether that statement raises (sqlite3.IntegrityError).
remember_raises(st, s, existing) == existing = None /\ s \in DOMAIN st

\* A thread calls a method of the store.
CallStore(th, op, s, p, c, a) ==
    /\ mcall[th].pc = "idle"
    /\ nCalls < MaxCalls
    /\ nCalls' = nCalls + 1
    /\ mcall' = [mcall EXCEPT ![th] =
                   [NoCall EXCEPT !.pc = "lock", !.op = op, !.sid = s,
                                  !.patient_id = p, !.clinician_id = c,
                                  !.action = a]]
    /\ UNCHANGED <<store, now, db_lock, serial, written, last, nRemember, reqVars,
                   auxVars>>

\* with self._db_lock: ... datetime.utcnow().  forget and the sweep have one
\* statement, the other methods read first.
Acquire(th) ==
    /\ mcall[th].pc = "lock"
    /\ acquire(db_lock)
    /\ db_lock' = th
    /\ mcall' = [mcall EXCEPT ![th].t = now,
                              ![th].pc = IF mcall[th].op \in {"forget", "cleanup"}
                                         THEN "write" ELSE "read"]
    /\ UNCHANGED <<store, now, serial, nCalls, written, last, nRemember, reqVars,
                   auxVars>>

\* The first statement of remember, recall and get_statistics: a SELECT.
Read(th) ==
    LET m == mcall[th]
    IN  /\ m.pc = "read"
        /\ mcall' = [mcall EXCEPT ![th] =
                       CASE m.op = "remember" ->
                              [m EXCEPT !.pc = "write",
                                        !.existing = select_existing(store, m.sid)]
                         [] m.op = "recall" ->
                              [m EXCEPT !.pc = "exit",
                                        !.ret_row = recall(store, m.t, m.sid)]
                         [] OTHER ->
                              [m EXCEPT !.pc = "write",
                                        !.ret_count = Cardinality(DOMAIN store)]]
        /\ UNCHANGED <<store, now, db_lock, serial, nCalls, written, last,
                       nRemember, reqVars,
                   auxVars>>

\* The second statement and the commit: remember's UPDATE or INSERT, forget's
\* and the sweep's DELETE, get_statistics' second SELECT.
Write(th) ==
    LET m == mcall[th]
        raises == m.op = "remember" /\ remember_raises(store, m.sid, m.existing)
        active == Cardinality({s \in DOMAIN store : recall_where(store, m.t, s)})
    IN  /\ m.pc = "write"
        /\ store' =
             CASE m.op = "remember" ->
                    remember_write(store, m.t, m.sid, m.patient_id,
                                   m.clinician_id, m.action, m.existing)
               [] m.op = "forget" -> forget(store, m.sid)
               [] m.op = "cleanup" -> Drop(store, cleanup_rows(store, m.t))
               [] OTHER -> store
        /\ serial' =
             CASE m.op = "remember" /\ ~raises ->
                    remember(serial, m.t, m.sid, m.patient_id, m.clinician_id,
                             m.action)
               [] m.op = "forget" -> forget(serial, m.sid)
               [] m.op = "cleanup" -> Drop(serial, cleanup_rows(serial, m.t))
               [] OTHER -> serial
        /\ mcall' = [mcall EXCEPT ![th] =
                       CASE m.op = "remember" ->
                              [m EXCEPT !.pc = "exit", !.ret_ok = ~raises]
                         [] m.op = "cleanup" ->
                              [m EXCEPT !.pc = "exit",
                                        !.ret_count =
                                            Cardinality(cleanup_rows(store, m.t))]
                         [] m.op = "statistics" ->
                              [m EXCEPT !.pc = "exit",
                                        !.ret_stats =
                                            [total_sessions |-> m.ret_count,
                                             active_sessions |-> active,
                                             expired_sessions |->
                                                 m.ret_count - active]]
                         [] OTHER -> [m EXCEPT !.pc = "exit"]]
        /\ UNCHANGED <<now, db_lock, nCalls, written, last, nRemember, reqVars,
                   auxVars>>

\* The end of the with block releases the lock, and the method returns.
Release(th) ==
    /\ mcall[th].pc = "exit"
    /\ db_lock' = 0
    /\ mcall' = [mcall EXCEPT ![th] = NoCall]
    /\ UNCHANGED <<store, now, serial, nCalls, written, last, nRemember, reqVars,
                   auxVars>>

(***************************************************************************)
(* SpecConc: two threads make MaxCalls calls between them on one store, at *)
(* an instant before and one after the expiry of what was written first.   *)
(***************************************************************************)
ConcCalls ==
    { <<"remember", "S1", "PT_0001", "DR_0001", "access">>,
      <<"remember", "S1", NULL, NULL, "report">>,
      <<"remember", "S2", "PT_0002", NULL, NULL>>,
      <<"recall", "S1", NULL, NULL, NULL>>,
      <<"forget", "S1", NULL, NULL, NULL>>,
      <<"cleanup", NULL, NULL, NULL, NULL>>,
      <<"statistics", NULL, NULL, NULL, NULL>> }

ConcInstants == {0, TTL + 1}

NextConc ==
    \/ \E t \in ConcInstants :
          t > now /\ Tick(t - now) /\ UNCHANGED <<reqVars, concVars, auxVars>>
    \/ \E th \in Threads, x \in ConcCalls :
          CallStore(th, x[1], x[2], x[3], x[4], x[5])
    \/ \E th \in Threads : Acquire(th)
    \/ \E th \in Threads : Read(th)
    \/ \E th \in Threads : Write(th)
    \/ \E th \in Threads : Release(th)

SpecConc == Init /\ [][NextConc]_vars

\* The threads that are inside the storage section of a method.
InSection == {th \in Threads : mcall[th].pc \in {"read", "write", "exit"}}

\* C11: store operations are serialized under one lock.  At most one call is
\* inside its storage section, and it holds the lock; the table always equals
\* the one the committed calls make when applied one at a time, in the order
\* of their commits (so no history entry of a committed remember is lost);
\* recall and get_statistics return what they return on that table, and no
\* remember fails for a row another call inserted meanwhile.
C11_SerializedUnderLock ==
    /\ Cardinality(InSection) <= 1
    /\ \A th \in InSection : db_lock = th
    /\ store = serial
    /\ \A th \in Threads :
          mcall[th].pc = "exit" =>
              /\ mcall[th].op = "recall" =>
                     mcall[th].ret_row = recall(serial, mcall[th].t, mcall[th].sid)
              /\ mcall[th].op = "statistics" =>
                     mcall[th].ret_stats = get_statistics(serial, mcall[th].t)
              /\ mcall[th].op = "remember" => mcall[th].ret_ok

\* C11 witness: a remember with an action commits on a session while another
\* thread's remember with an action on that session waits for the lock, and
\* the history has the entries of this call and of the one before it.
C11_Witness ==
    /\ mcall[1].pc = "exit" /\ mcall[1].op = "remember" /\ mcall[1].action = "report"
    /\ mcall[2].pc = "lock" /\ mcall[2].op = "remember" /\ mcall[2].action = "access"
    /\ mcall[1].sid = mcall[2].sid
    /\ Len(store[mcall[1].sid].conversation_history) = 2

(***************************************************************************)
(* Failures of the storage layer.                                          *)
(***************************************************************************)
\* MemoryManager.close(): every later statement on the connection raises
\* sqlite3.ProgrammingError.
Close ==
    /\ storage # "closed"
    /\ storage' = "closed"
    /\ UNCHANGED <<store, now, written, last, nRemember, reqVars, concVars,
                   tok, auditVars>>

\* The database file becomes unreadable or unwritable (sqlite3.OperationalError
\* or DatabaseError in every statement) ...
StorageFails ==
    /\ storage = "ok"
    /\ storage' = "failing"
    /\ UNCHANGED <<store, now, written, last, nRemember, reqVars, concVars,
                   tok, auditVars>>

\* ... and usable again.
StorageRecovers ==
    /\ storage = "failing"
    /\ storage' = "ok"
    /\ UNCHANGED <<store, now, written, last, nRemember, reqVars, concVars,
                   tok, auditVars>>

(***************************************************************************)
(* SpecFault: the methods of the store and requests with a valid plan,     *)
(* while the storage layer works, fails and is closed.                     *)
(***************************************************************************)
\* SpecFault: number of process_request calls in one run.
MaxFaultRequests == 1

FaultArgs == { <<"PT_0001", "DR_0001", "access">> }

ValidPlan == <<VERIFY, CONSENT, FETCH, LOG("ABSENT")>>

NextFault ==
    \/ Close
    \/ StorageFails
    \/ StorageRecovers
    \/ \E t \in ConcInstants :
          t > now /\ Tick(t - now) /\ UNCHANGED <<reqVars, concVars, auxVars>>
    \/ \E x \in FaultArgs :
          /\ nRemember < MaxRemember
          /\ Remember("S1", x[1], x[2], x[3])
          /\ UNCHANGED <<reqVars, concVars, auxVars>>
    \/ Recall("S1") /\ UNCHANGED <<reqVars, concVars, auxVars>>
    \/ Forget("S1") /\ UNCHANGED <<reqVars, concVars, auxVars>>
    \/ Cleanup /\ UNCHANGED <<reqVars, concVars, auxVars>>
    \/ Statistics /\ UNCHANGED <<reqVars, concVars, auxVars>>
    \/ \E p \in {NULL, "PT_0001"} :
          /\ nTokens < MaxFaultRequests
          /\ Start(1, "access record", "DR_0001", p, TRUE)
    \/ ContextRecall(1)
    \/ Planning(1, "plan", ValidPlan)
    \/ PolicyValidation(1, Validation(TRUE, "none", "none", FALSE, None, FALSE))
    \/ \E out \in UNION {ToolResults(t) : t \in REGISTRY} :
          out.success /\ ExecStep(1, out)
    \/ \E valid \in PostValid : PostValidation(1, valid)
    \/ MemoryUpdate(1)
    \/ Format(1)
    \/ Return(1)

SpecFault == Init /\ [][NextFault]_vars

\* C12: the store never raises to its caller.  No call of the store raises;
\* one in which the storage layer failed returns false (remember, forget),
\* none (recall), 0 (the sweep) or the empty result (get_statistics) and
\* leaves the table as it was; and a request whose recall or remember failed
\* returns the result of its plan's execution, as it does with a working
\* store.
C12_StoreNeverRaises ==
    /\ ~last.raised
    /\ last.failed =>
          /\ last.op \in {"remember", "forget"} => ~last.ret_ok
          /\ last.op = "recall" => last.ret_row = None
          /\ last.op = "cleanup" => last.ret_count = 0
          /\ last.op = "statistics" => DOMAIN last.ret_stats = {}
    /\ \A th \in Threads :
          /\ loc[th].response.kind # "exception"
          /\ (loc[th].pc = "done" /\ loc[th].store_failed) =>
                /\ loc[th].plan = ValidPlan
                /\ loc[th].validation.valid
                /\ Len(loc[th].results) >= 1
                /\ loc[th].response =
                       FormatResponse(loc[th].seq, loc[th].results,
                                      loc[th].post_valid # "false")

\* C12 witness: get_statistics was called on the closed store after expired
\* rows were left in it, and a request whose remember failed has returned
\* the four results of its plan with success.
C12_Witness ==
    /\ last.op = "statistics" /\ last.failed /\ storage = "closed"
    /\ \E s \in DOMAIN store : cleanup_where(store, now, s)
    /\ loc[1].pc = "done" /\ loc[1].store_failed
    /\ Truthy(loc[1].patient_id)
    /\ loc[1].response.success
    /\ Len(loc[1].response.results) = 4

(***************************************************************************)
(* Claims about the Orchestrator.                                          *)
(***************************************************************************)
\* The request ran the pipeline and process_request returned what it made of
\* the results.
Executed(L) ==
    L.pc = "done" /\ L.n_execute_sequence >= 1 /\ L.response.kind = "format"

\* C13: post-execution validation after every execution.  Whenever the
\* pipeline ran, of the valid plan or of a corrected sequence, to its end or
\* not, validate_execution_result was called once after it and the Result
\* carries its verdict.
C13_PostValidationAlways ==
    \A th \in Threads :
        Executed(loc[th]) =>
            /\ loc[th].n_validate_result = 1
            /\ loc[th].post_valid \in PostValid
            /\ loc[th].response.valid = (loc[th].post_valid # "false")

\* C14: single-shot trust after correction.  A request calls
\* validate_planned_execution at most once, asks the oracle for a correction
\* at most once and runs the pipeline at most once; a corrected sequence is
\* executed as it is, after the one validation of the plan, and when one of
\* its steps fails the request ends, with the results it has when the
\* pipeline returned them.
C14_SingleShot ==
    \A th \in Threads :
        /\ loc[th].n_validate_planned <= 1
        /\ loc[th].n_generate_corrected <= 1
        /\ loc[th].n_execute_sequence <= 1
        /\ loc[th].path = "retry" =>
              /\ loc[th].n_validate_planned = 1
              /\ loc[th].n_execute_sequence = 1
              /\ ~loc[th].validation.valid
              /\ loc[th].pc \in {"exec", "executed", "done"}
              /\ Len(loc[th].seq) =
                     Len(IF HasList(loc[th].validation.corrected_sequence)
                         THEN loc[th].validation.corrected_sequence[1]
                         ELSE loc[th].seq)
        /\ (loc[th].path = "retry" /\ loc[th].pc = "done") =>
              /\ loc[th].response.kind \in {"format", "exception"}
              /\ loc[th].response.kind = "format" =>
                     loc[th].response.results = loc[th].results

\* C14 witness: a correction from the oracle was executed and its second
\* step failed; the request returned the two results after one validation,
\* one correction and one run of the pipeline.
C14_Witness ==
    /\ loc[1].pc = "done" /\ loc[1].path = "retry"
    /\ loc[1].n_validate_planned = 1
    /\ loc[1].n_generate_corrected = 1
    /\ loc[1].n_execute_sequence = 1
    /\ Len(loc[1].response.results) = 2
    /\ ~loc[1].response.results[2].success

\* The retries made for the thread's request: those counted since it began.
OwnRetries(th) == retry_count - loc[th].retry_at_entry

\* C15: retry budgets do not interfere across requests.  FilterAgent.handle_retry
\* refuses a request for exhausted retries only when the request itself has
\* made FILTER_MAX_RETRIES retries.
C15_RetryBudgetIsolated ==
    \A th \in Threads :
        loc[th].reason = "max_retries" => OwnRetries(th) >= FILTER_MAX_RETRIES

\* C16: consent-aware retry.  For a plan found in violation whose
\* ValidationResult has requires_user_consent, a correction is requested and
\* a corrected sequence executed only after the caller was asked and
\* consented; when the caller declines, the request ends REJECTED with no
\* correction requested, the pipeline not entered and no operation invoked.
C16_ConsentAwareRetry ==
    \A th \in Threads :
        (Violation(loc[th]) /\ loc[th].validation.requires_user_consent) =>
            /\ loc[th].pc \in {"handle_retry", "correct"} =>
                   loc[th].consent = "granted"
            /\ loc[th].n_generate_corrected >= 1 => loc[th].consent = "granted"
            /\ loc[th].n_execute_sequence >= 1 => loc[th].consent = "granted"
            /\ loc[th].calls # <<>> => loc[th].consent = "granted"
            /\ loc[th].consent = "declined" =>
                   /\ Rejected(loc[th])
                   /\ loc[th].response.error = "User declined retry"
                   /\ loc[th].n_generate_corrected = 0
                   /\ loc[th].n_execute_sequence = 0
                   /\ loc[th].calls = <<>>

\* C16 witness: the ValidationResult required consent and carried a corrected
\* sequence, the caller consented and the four steps were executed.
C16_Witness ==
    /\ Violation(loc[1]) /\ loc[1].validation.requires_user_consent
    /\ loc[1].consent = "granted"
    /\ loc[1].pc = "done" /\ loc[1].path = "retry"
    /\ Len(loc[1].calls) = 4

\* The trace tokens.
TraceTokens == {TokenNames[k] : k \in 1..Len(TokenNames)}

\* C17: session continuity.  The context a request persists is stored under
\* an identifier of the continuing session, not under a trace token; and a
\* request of the caller that omits the patient id, made after an earlier
\* request of the caller persisted one, has it filled in by the recall.
C17_SessionContinuity ==
    /\ DOMAIN store \cap TraceTokens = {}
    /\ \A th \in Threads :
          (loc[th].pc = "plan" /\ DOMAIN store # {}) =>
              Truthy(loc[th].patient_id)

\* The second part of C17 alone.
C17_RecallFillsIn ==
    \A th \in Threads :
        (loc[th].pc = "plan" /\ DOMAIN store # {}) => Truthy(loc[th].patient_id)


\* A Result says what went wrong: an error message, the violation, a failed
\* step among its results, or a validation that is not valid.
Classified(r) ==
    \/ r.error # "none"
    \/ r.violation_info # None
    \/ \E k \in 1..Len(r.results) : ~r.results[k].success
    \/ ~r.valid

\* C18: every Result of process_request with success = false contains the
\* trace token of the request, a violation or error classification and, when
\* the policy gate detected a violation, that violation (with its explanation
\* and recommendation).
C18_FailureCarriesTrace ==
    \A th \in Threads :
        LET L == loc[th]
        IN  (L.pc = "done" /\ ~L.response.success) =>
                /\ L.minted # NULL
                /\ L.response.session_token = L.minted
                /\ Classified(L.response)
                /\ Violation(L) => L.response.violation_info = Some(L.validation)

\* C18, on the failures after a token was minted only: the Result contains
\* that token.
C18_MintedTokenReturned ==
    \A th \in Threads :
        LET L == loc[th]
        IN  (L.pc = "done" /\ ~L.response.success /\ L.minted # NULL) =>
                L.response.session_token = L.minted

\* C18, on the failures after a detected violation only: the Result contains
\* the violation.
C18_ViolationReturned ==
    \A th \in Threads :
        LET L == loc[th]
        IN  (L.pc = "done" /\ ~L.response.success /\ Violation(L)
             /\ L.response.kind # "exception") =>
                L.response.violation_info = Some(L.validation)

(***************************************************************************)
(* Trace tokens: generate_session_token (tools/token_generator.py) and its *)
(* call at the head of process_request.  Strings are sequences of code     *)
(* points, so that the format of a token is something to be computed.      *)
(***************************************************************************)
\* "_"
UNDERSCORE == 95

\* config.TOKEN_LENGTH
TOKEN_LENGTH == 32

\* config.TOKEN_PREFIX = "HIPAA"
TOKEN_PREFIX == <<72, 73, 80, 65, 65>>

\* string.ascii_lowercase, string.ascii_uppercase, string.digits
ascii_lowercase == [k \in 1..26 |-> 96 + k]
ascii_uppercase == [k \in 1..26 |-> 64 + k]
digits == [k \in 1..10 |-> ZERO + k - 1]

alphabet_lowercase == ascii_lowercase \o digits

\* alphabet = string.ascii_uppercase + string.digits
alphabet == ascii_uppercase \o digits

\* secrets.choice(seq): seq[randbelow(len(seq))]; r is what randbelow drew.
choice(seq, r) == seq[r + 1]

\* ''.join(secrets.choice(alphabet) for _ in range(config.TOKEN_LENGTH));
\* draws[k] is the k-th draw.
random_part(draws) == [k \in 1..TOKEN_LENGTH |-> choice(alphabet, draws[k])]

\* A number in decimal, as many digits as it takes.
RECURSIVE Decimal(_)
Decimal(n) ==
    IF n < 10 THEN <<ZERO + n>> ELSE Append(Decimal(n \div 10), ZERO + (n % 10))

\* strftime("%Y%m%d%H%M%S"): %Y is the year in decimal, the other fields are
\* zero-padded to two digits.
strftime(dt) ==
    Decimal(dt.year) \o Digits(dt.month, 2) \o Digits(dt.day, 2) \o
    Digits(dt.hour, 2) \o Digits(dt.minute, 2) \o Digits(dt.second, 2)

\* f"{config.TOKEN_PREFIX}_{random_part}_{timestamp}"
token_of(rp, ts) == TOKEN_PREFIX \o <<UNDERSCORE>> \o rp \o <<UNDERSCORE>> \o ts

\* Largest stride of the sequences of draws that are tried.
MaxStride == 3

\* Sequences of TOKEN_LENGTH draws of randbelow(len(alphabet)): from every
\* first draw, every draw the same or walking through the alphabet, so that
\* every character is drawn at every position.
Draws ==
    { [k \in 1..TOKEN_LENGTH |-> (seed + (k - 1) * stride) % Len(alphabet)] :
        seed \in 0..(Len(alphabet) - 1), stride \in 0..MaxStride }

\* What datetime.now() can return: local times from the epoch of the system
\* clock to datetime.max.
Datetimes ==
    { [year |-> 1970, month |-> 1, day |-> 1, hour |-> 0, minute |-> 0,
       second |-> 0],
      [year |-> 2026, month |-> 11, day |-> 2, hour |-> 9, minute |-> 5,
       second |-> 7],
      [year |-> 9999, month |-> 12, day |-> 31, hour |-> 23, minute |-> 59,
       second |-> 59] }

\* token_generator.py 31-32.
RandomPart(draws) ==
    /\ tok.pc = "idle"
    /\ tok' = [tok EXCEPT !.pc = "random", !.random_part = random_part(draws)]
    /\ UNCHANGED <<store, now, written, last, nRemember, reqVars, concVars,
                   storage, auditVars>>

\* token_generator.py 35.
Timestamp(dt) ==
    /\ tok.pc = "random"
    /\ tok' = [tok EXCEPT !.pc = "stamped", !.timestamp = strftime(dt)]
    /\ UNCHANGED <<store, now, written, last, nRemember, reqVars, concVars,
                   storage, auditVars>>

\* token_generator.py 38-40.
Combine ==
    /\ tok.pc = "stamped"
    /\ tok' = [tok EXCEPT !.pc = "returned",
                          !.token = token_of(tok.random_part, tok.timestamp)]
    /\ UNCHANGED <<store, now, written, last, nRemember, reqVars, concVars,
                   storage, auditVars>>

\* One request, from its call of token_generator_tool to the policy gate.
NextToken ==
    \/ \E draws \in Draws : RandomPart(draws)
    \/ \E dt \in Datetimes : Timestamp(dt)
    \/ Combine
    \/ \E p \in {NULL, "PT_0001"} :
          /\ tok.pc = "returned"
          /\ nTokens = 0
          /\ Start(1, "access record", "DR_0001", p, TRUE)
    \/ ContextRecall(1)
    \/ \E answer \in {"raise", "undecodable"} : Planning(1, answer, <<>>)
    \/ Planning(1, "plan", ValidPlan)
    \/ \E v \in Validations : PolicyValidation(1, v)

SpecToken == Init /\ [][NextToken]_vars

\* PREFIX_[A-Z0-9]{N}_\d{14}
WellFormed(t) ==
    LET P == Len(TOKEN_PREFIX)
        N == TOKEN_LENGTH
    IN  /\ Len(t) = P + 1 + N + 1 + 14
        /\ SubSeq(t, 1, P) = TOKEN_PREFIX
        /\ t[P + 1] = 95
        /\ \A k \in (P + 2)..(P + 1 + N) : t[k] \in (65..90) \cup (48..57)
        /\ t[P + N + 2] = 95
        /\ \A k \in (P + N + 3)..(P + N + 16) : t[k] \in 48..57

\* C19: every token generate_session_token returns is TOKEN_PREFIX, "_",
\* TOKEN_LENGTH characters of A-Z and 0-9, "_" and 14 decimal digits; and a
\* request that has come to its context recall, its planning or its policy
\* validation has minted its token before.
C19_TokenFormat ==
    /\ tok.pc = "returned" => WellFormed(tok.token)
    /\ \A th \in Threads :
          loc[th].pc # "idle" =>
              /\ tok.pc = "returned"
              /\ loc[th].minted # NULL
              /\ loc[th].minted = current_session_token

\* A token was generated with a digit and a letter in its random part, and the
\* request that minted it has been through recall and planning.
C19_Witness ==
    /\ tok.pc = "returned"
    /\ \E j, k \in 1..TOKEN_LENGTH :
          tok.random_part[j] \in 48..57 /\ tok.random_part[k] \in 65..90
    /\ loc[1].pc = "validate"
    /\ loc[1].minted # NULL

(***************************************************************************)
(* The audit trail: utils.log_to_audit_trail and its helpers, called by    *)
(* two threads, and AdminCLI.clear_logs.  No lock is taken anywhere on the *)
(* way, so the steps of two calls interleave at every access of the file.  *)
(***************************************************************************)
\* SpecAudit: number of calls of log_to_audit_trail in one run.
MaxLogs == 3

\* utils.load_json_file: [] when the file is missing, when it is not JSON
\* (JSONDecodeError) and on any other exception; the decoded data otherwise.
load_json_file(f) == IF f.kind = "list" THEN f.items ELSE <<>>

\* The dict log_to_audit_trail builds, called without token_id and details;
\* t stands for datetime.now().
audit_entry(t, c, p, a, ok) ==
    [timestamp |-> t, clinician_id |-> c, patient_id |-> p, action |-> a,
     success |-> ok, token_id |-> NULL, details |-> <<>>]

\* What the file holds once data is written through a descriptor opened
\* before: the bytes of data from offset 0, and behind them what a later
\* writer left there beyond the end of data.
Written(f, data) ==
    IF f.kind = "list" /\ Len(f.items) > Len(data)
    THEN [kind |-> "not_json", items |-> <<>>]
    ELSE [kind |-> "list", items |-> data]

\* log_to_audit_trail is called (utils.py 111-141).
LogBegin(th, a, ok) ==
    /\ alog[th].pc = "idle"
    /\ nLog < MaxLogs
    /\ nLog' = nLog + 1
    /\ alog' = [alog EXCEPT ![th] =
                  [pc |-> "load",
                   entry |-> audit_entry(nLog + 1, "DR_0001", "PT_0001", a, ok),
                   data |-> <<>>, ret |-> TRUE]]
    /\ UNCHANGED <<store, now, written, last, nRemember, reqVars, concVars,
                   storage, tok, AUDIT_LOG, logged>>

\* append_to_json_array, utils.py 96-100: load, replace what is not a list
\* by [], append.
Load(th) ==
    /\ alog[th].pc = "load"
    /\ alog' = [alog EXCEPT ![th].pc = "open",
                            ![th].data = Append(load_json_file(AUDIT_LOG),
                                                alog[th].entry)]
    /\ UNCHANGED <<store, now, written, last, nRemember, reqVars, concVars,
                   storage, tok, AUDIT_LOG, logged, nLog>>

\* save_json_file, utils.py 77: open(filepath, 'w') truncates the file; when
\* it raises the call returns False.
Open(th, opened) ==
    /\ alog[th].pc = "open"
    /\ IF opened
       THEN /\ AUDIT_LOG' = [kind |-> "not_json", items |-> <<>>]
            /\ alog' = [alog EXCEPT ![th].pc = "dump"]
       ELSE /\ alog' = [alog EXCEPT ![th].pc = "idle", ![th].ret = FALSE]
            /\ UNCHANGED AUDIT_LOG
    /\ UNCHANGED <<store, now, written, last, nRemember, reqVars, concVars,
                   storage, tok, logged, nLog>>

\* save_json_file, utils.py 78-82: json.dump writes the list and the call
\* returns True, or raises part-way (a value that is not serialisable, a full
\* disk) and the call returns False.
Dump(th, dumped) ==
    /\ alog[th].pc = "dump"
    /\ IF dumped
       THEN /\ AUDIT_LOG' = Written(AUDIT_LOG, alog[th].data)
            /\ alog' = [alog EXCEPT ![th].pc = "idle", ![th].ret = TRUE]
            /\ logged' = Append(logged, alog[th].entry)
       ELSE /\ AUDIT_LOG' = [kind |-> "not_json", items |-> <<>>]
            /\ alog' = [alog EXCEPT ![th].pc = "idle", ![th].ret = FALSE]
            /\ UNCHANGED logged
    /\ UNCHANGED <<store, now, written, last, nRemember, reqVars, concVars,
                   storage, tok, nLog>>

\* AdminCLI.clear_logs, confirmed: the audit trail becomes [].
clear_logs ==
    /\ AUDIT_LOG' = [kind |-> "list", items |-> <<>>]
    /\ logged' = <<>>
    /\ UNCHANGED <<store, now, written, last, nRemember, reqVars, concVars,
                   storage, tok, alog, nLog>>

NextAudit ==
    \/ \E th \in Threads, a \in {"fetch_record", "verify_credentials"} :
          LogBegin(th, a, TRUE)
    \/ \E th \in Threads : Load(th)
    \/ \E th \in Threads, opened \in BOOLEAN : Open(th, opened)
    \/ \E th \in Threads, dumped \in BOOLEAN : Dump(th, dumped)
    \/ clear_logs

SpecAudit == Init /\ [][NextAudit]_vars

\* No call is between opening the file and having written it.
NoWriter == \A th \in Threads : alog[th].pc # "dump"

\* C20: the audit trail is append-only.  Whenever no call is in the middle of
\* writing the file, the file holds exactly the entries of the calls that
\* reported success since the last clear_logs, in the order in which they
\* reported it: each such call added one record at the end and no record was
\* lost, changed or moved.
C20_AuditAppendOnly ==
    NoWriter => /\ logged # <<>> => AUDIT_LOG.kind = "list"
                /\ load_json_file(AUDIT_LOG) = logged

\* C20, for one caller at a time: no call begins before the one before it has
\* returned.
C20_SequentialAppendOnly ==
    (NoWriter /\ \E th \in Threads : \A o \in Threads \ {th} :
                     alog[o].pc = "idle" /\ alog[o].entry = <<>>) =>
        load_json_file(AUDIT_LOG) = logged

(***************************************************************************)
(* SpecPar: two threads call process_request on the RootAgent that         *)
(* get_root_agent hands to every caller.  self.current_session_token is an *)
(* attribute of that one object, and nothing in process_request holds a    *)
(* lock, so the steps of the two requests interleave.                      *)
(***************************************************************************)
\* SpecPar: number of process_request calls in one run.
MaxParRequests == 2

\* The plans of the two requests: audit steps without token_id, with a
\* placeholder and with a token of their own.
ParPlans ==
    { <<VERIFY, LOG("ABSENT")>>,
      <<LOG("SESSION_TOKEN"), LOG("OTHER_TOKEN")>> }

NextPar ==
    \/ \E th \in Threads :
          nTokens < MaxParRequests /\ Start(th, "access record", "DR_0001", "PT_0001", TRUE)
    \/ \E th \in Threads : ContextRecall(th)
    \/ \E th \in Threads, plan \in ParPlans : Planning(th, "plan", plan)
    \/ \E th \in Threads :
          PolicyValidation(th, Validation(TRUE, "none", "none", FALSE, None, FALSE))
    \/ \E th \in Threads :
          \E out \in UNION {ToolResults(t) : t \in REGISTRY} :
              out.success /\ ExecStep(th, out)
    \/ \E th \in Threads : PostValidation(th, "true")
    \/ \E th \in Threads : MemoryUpdate(th)
    \/ \E th \in Threads : Format(th)
    \/ \E th \in Threads : Return(th)

SpecPar == Init /\ [][NextPar]_vars

\* The parameter values that stand for "fill in the trace token".
Placeholders == {"ABSENT", "SESSION_TOKEN", "TOKEN"}

\* C21: an audit-logging step whose token_id is absent or a placeholder is
\* invoked with the trace token minted for the request that executes it, also
\* when two requests run at the same time; every other step is invoked with
\* the token_id it came with.
C21_TokenNormalization ==
    \A th \in Threads :
        \A c \in 1..Len(loc[th].calls) :
            LET call == loc[th].calls[c]
            IN  IF call.tool = "log_access_to_audit_trail"
                   /\ call.given \in Placeholders
                THEN call.token_id = loc[th].minted
                ELSE call.token_id = call.given

(***************************************************************************)
(* Claims about faults of the oracle and of the steps.                     *)
(***************************************************************************)
\* The request of thread th invoked nothing and tried no correction.
FailedClosed(th) ==
    LET L == loc[th]
    IN  /\ L.pc = "done"
        /\ ~L.response.success
        /\ L.calls = <<>>
        /\ L.n_execute_sequence = 0
        /\ L.n_generate_corrected = 0
        /\ L.consent = "unasked"
        /\ retry_count = L.retry_at_entry

\* C22: when the plan text or the pre-execution validation payload cannot be
\* decoded, process_request returns success = false, invokes no operation and
\* attempts no correction or retry; the validation decode fault is reported as
\* valid = false with allow_retry = false.
C22_DecodeFaultsFailClosed ==
    \A th \in Threads :
        LET L == loc[th]
        IN  /\ (L.pc = "done"
                /\ L.response.error = "Agent failed to generate a valid plan")
               => FailedClosed(th)
            /\ L.validation.violation_type = "validation_error"
               => /\ FailedClosed(th)
                  /\ ~L.validation.valid
                  /\ ~L.validation.allow_retry
                  /\ L.response.violation_info = Some(L.validation)

\* A request whose validation payload did not decode has returned.
C22_Witness ==
    /\ loc[1].pc = "done"
    /\ loc[1].validation.violation_type = "validation_error"
    /\ loc[1].n_validate_planned = 1
    /\ ~loc[1].response.success

\* C23: every step the pipeline processes leaves a result.  A name the
\* registry does not have gives the not-found result and invokes nothing; an
\* exception while the call is prepared or made gives a failed result; after
\* a failed result nothing more is processed; and once _execute_sequence has
\* begun it returns, so that the request ends with the response formatted from
\* the results so far.
C23_FaultsBecomeValues ==
    \A th \in Threads :
        LET L == loc[th]
        IN  /\ \A k \in 1..Len(L.results) :
                  /\ L.seq[k].tool \notin REGISTRY =>
                        /\ L.results[k] = NotFoundResult
                        /\ \A c \in 1..Len(L.calls) : L.calls[c].index # k
                  /\ ~L.results[k].success => k = Len(L.results)
            /\ \A c \in 1..Len(L.calls) : L.calls[c].index <= Len(L.results) + 1
            /\ (L.pc = "done" /\ L.n_execute_sequence > 0) =>
                  /\ L.response.kind = "format"
                  /\ L.response.results = L.results

\* C23, for the steps that are JSON objects only.
C23_ObjectStepsBecomeValues ==
    \A th \in Threads :
        LET L == loc[th]
        IN  (L.pc = "done" /\ L.n_execute_sequence > 0
             /\ \A k \in 1..Len(L.seq) : L.seq[k].shape = "dict") =>
                  /\ L.response.kind = "format"
                  /\ L.response.results = L.results

(***************************************************************************)
(* Claims about the order of a request.                                    *)
(***************************************************************************)
\* The operations a sequence names, in order (the pipeline fills in token_id
\* in place, so the steps themselves change while they run).
Tools(sequence) == [k \in 1..Len(sequence) |-> sequence[k].tool]

\* C24: gate before execution.  Nothing is invoked before
\* validate_planned_execution has returned; the sequence in the pipeline is the
\* plan that was judged valid or, after a plan judged invalid, the corrected
\* sequence the oracle supplied; and the steps are invoked one after another in
\* the order of the sequence, each only after every step before it returned a
\* result that does not stop the pipeline.
C24_GateBeforeExecution ==
    \A th \in Threads :
        LET L == loc[th]
        IN  /\ (L.calls # <<>> \/ L.n_execute_sequence > 0) =>
                  L.n_validate_planned = 1 /\ L.validation # NoValidation
            /\ L.path = "normal" =>
                  L.validation.valid /\ Tools(L.seq) = Tools(L.plan)
            /\ L.path = "retry" =>
                  /\ ~L.validation.valid
                  /\ L.validation.allow_retry
                  /\ IF HasList(L.validation.corrected_sequence)
                     THEN Tools(L.seq) = Tools(L.validation.corrected_sequence[1])
                     ELSE /\ L.n_generate_corrected = 1
                          /\ \E x \in Corrections : Tools(L.seq) = Tools(x)
            /\ \A c \in 1..Len(L.calls) :
                  /\ L.calls[c].tool = L.seq[L.calls[c].index].tool
                  /\ c > 1 => L.calls[c - 1].index < L.calls[c].index
                  /\ \A j \in 1..(L.calls[c].index - 1) :
                        /\ j <= Len(L.results)
                        /\ L.results[j].success
                        /\ ~(L.seq[j].tool = "check_patient_consent_status"
                             /\ L.results[j].consent_granted = "false")

\* A valid plan of four steps was executed to its end.
C24_Witness ==
    /\ loc[1].pc = "done"
    /\ loc[1].path = "normal"
    /\ loc[1].validation.valid
    /\ Len(loc[1].calls) = 4
    /\ loc[1].response.success

\* C25: when the credential-verification step reports verified = false, no
\* later step of the sequence is invoked.
C25_UnverifiedHalts ==
    \A th \in Threads :
        LET L == loc[th]
        IN  \A k \in 1..Len(L.results) :
                (L.seq[k].tool = "verify_clinician_credentials"
                 /\ L.results[k].verified = "false") => NoCallAfter(L, k)

\* C25, for the verification results with success = false only (an id of the
\* wrong format).
C25_FailedVerificationHalts ==
    \A th \in Threads :
        LET L == loc[th]
        IN  \A k \in 1..Len(L.results) :
                (L.seq[k].tool = "verify_clinician_credentials"
                 /\ L.results[k].verified = "false"
                 /\ ~L.results[k].success) => NoCallAfter(L, k)

\* C26: every execution of a corrected sequence is preceded by exactly one
\* increment of retry_count, whether the corrected sequence came inside the
\* ValidationResult or from generate_corrected_sequence; a request that
\* executes no corrected sequence does not increment it; and retry_count
\* never exceeds FILTER_MAX_RETRIES.
C26_RetryCounted ==
    /\ retry_count <= FILTER_MAX_RETRIES
    /\ \A th \in Threads :
          IF loc[th].path = "retry"
          THEN OwnRetries(th) = 1
          ELSE loc[th].pc # "idle" => OwnRetries(th) = 0

\* C26, for the corrected sequences that generate_corrected_sequence returned
\* only.
C26_FallbackRetryCounted ==
    /\ retry_count <= FILTER_MAX_RETRIES
    /\ \A th \in Threads :
          IF loc[th].path = "retry"
             /\ ~HasList(loc[th].validation.corrected_sequence)
          THEN OwnRetries(th) = 1
          ELSE loc[th].pc # "idle" => OwnRetries(th) = 0

\* Both ids are known to the request.
IdsKnown(L) == Truthy(L.patient_id) /\ Truthy(L.clinician_id)

\* C27: memory is updated exactly when a request executed.  A request that
\* ends with success = true and both ids known, after its valid plan or after
\* a corrected sequence, has called remember once and its row is in the
\* store; a request that was rejected before execution, or that has an id
\* missing, has not called remember and has no row.
C27_MemoryUpdatedWhenExecuted ==
    \A th \in Threads :
        LET L == loc[th]
        IN  L.pc = "done" =>
                /\ (L.response.success /\ IdsKnown(L)) =>
                      L.n_remember = 1 /\ L.minted \in DOMAIN store
                /\ (L.n_execute_sequence = 0 \/ ~IdsKnown(L)) =>
                      L.n_remember = 0 /\ L.minted \notin DOMAIN store

\* C27, for the requests that executed their valid plan and those that
\* executed nothing only.
C27_ValidPlanRemembered ==
    \A th \in Threads :
        LET L == loc[th]
        IN  (L.pc = "done" /\ L.path # "retry") =>
                /\ (L.response.success /\ IdsKnown(L)) =>
                      L.n_remember = 1 /\ L.minted \in DOMAIN store
                /\ (L.n_execute_sequence = 0 \/ ~IdsKnown(L)) =>
                      L.n_remember = 0 /\ L.minted \notin DOMAIN store

(***************************************************************************)
(* Claims about expired sessions.                                          *)
(***************************************************************************)
\* What recall returns of a row, but for its two dates.
Content(row) ==
    [clinician_id |-> row.clinician_id, last_patient_id |-> row.last_patient_id,
     last_action |-> row.last_action,
     conversation_history |-> row.conversation_history]

\* C28: an expired session is logically destroyed.  When remember(id) is
\* called for a session whose row has expired, swept or not, the row that a
\* recall(id) then returns holds what this remember wrote and nothing of what
\* was stored before the expiry: it is the row remember writes for a session
\* that has none.
C28_ExpiredDestroyed ==
    [][ (/\ nRemember' = nRemember + 1
         /\ storage = "ok"
         /\ last'.op = "remember"
         /\ ~recall_where(store, now, last'.sid))
        => /\ recall(store', now', last'.sid) # <<>>
           /\ Content(recall(store', now', last'.sid)[1]) =
                 Content(remember(<<>>, now, last'.sid, last'.patient_id,
                                  last'.clinician_id, last'.action)[last'.sid])
      ]_vars

\* C28, for the sessions that have no row (never written, forgotten or swept)
\* only.
C28_SweptDestroyed ==
    [][ (/\ nRemember' = nRemember + 1
         /\ storage = "ok"
         /\ last'.op = "remember"
         /\ last'.sid \notin DOMAIN store)
        => /\ recall(store', now', last'.sid) # <<>>
           /\ Content(recall(store', now', last'.sid)[1]) =
                 Content(remember(<<>>, now, last'.sid, last'.patient_id,
                                  last'.clinician_id, last'.action)[last'.sid])
      ]_vars

(***************************************************************************)
(* Claims about the Result.                                                *)
(***************************************************************************)
\* C29: a Result with success = true has one successful result for every step
\* of the executed sequence; when the pipeline stopped early, on a failed step
\* or on a denied consent, on either path, the Result has success = false.
C29_SuccessMeansComplete ==
    \A th \in Threads :
        LET r == loc[th].response
        IN  (loc[th].pc = "done" /\ r.success) =>
                /\ Len(r.results) = Len(r.executed_sequence)
                /\ \A k \in 1..Len(r.results) : r.results[k].success

\* C29, for the pipelines that stopped on a failed step only.
C29_FailedStepMeansFailure ==
    \A th \in Threads :
        LET r == loc[th].response
        IN  (loc[th].pc = "done" /\ r.kind = "format"
             /\ \E k \in 1..Len(r.results) : ~r.results[k].success) =>
                ~r.success

\* C30: request isolation of the trace token.  In every interleaving of two
\* process_request calls on the shared RootAgent, the token a call writes into
\* its planning prompt and into its validation context, and the token in the
\* Result it returns, is the token the call minted.
C30_TokenIsolation ==
    \A th \in Threads :
        LET L == loc[th]
        IN  /\ L.planning_token # NULL => L.planning_token = L.minted
            /\ L.context_token # NULL => L.context_token = L.minted
            /\ (L.pc = "done" /\ L.minted # NULL /\ L.response.kind # "exception")
               => L.response.session_token = L.minted

============================================================================
